---- MODULE Spec2Model ----
(***************************************************************************)
(* goup: listing and updating the dependencies of a Go module.             *)
(*                                                                         *)
(* The model covers internal/app (App.Run and its helpers),                *)
(* internal/dependency (manager), internal/selector (interactive selector  *)
(* and selection parser) and internal/updater (goUpdater).                 *)
(*                                                                         *)
(* Go strings are sequences of one-character strings, so that trimming,    *)
(* lower-casing, splitting, substring search and integer parsing are       *)
(* computed the way the Go standard library computes them.  Go errors are  *)
(* sequences of message fragments, outermost first: fmt.Errorf("p: %w", e) *)
(* is <<"p">> \o e, and the nil error is the empty sequence.               *)
(***************************************************************************)
EXTENDS Integers, Sequences, FiniteSets, TLC

\* ------------------------------------------------------------------------
\* Bounds of the model
\* ------------------------------------------------------------------------

\* modules listed by `go list -u -m -json all` (or required by go.mod)
MaxModules == 3

\* comma separated clauses of one selection line handed to ParseSelection
MaxClauses == 2

\* ------------------------------------------------------------------------
\* strings
\* ------------------------------------------------------------------------

\* byte value of the characters used by the model (ASCII)
Ascii(c) ==
  CASE c = " " -> 32 [] c = "*" -> 42 [] c = "+" -> 43 [] c = "," -> 44
    [] c = "-" -> 45 [] c = "/" -> 47
    [] c = "0" -> 48 [] c = "1" -> 49 [] c = "2" -> 50 [] c = "3" -> 51
    [] c = "4" -> 52 [] c = "5" -> 53 [] c = "6" -> 54 [] c = "7" -> 55
    [] c = "8" -> 56 [] c = "9" -> 57
    [] c = "A" -> 65 [] c = "B" -> 66 [] c = "L" -> 76
    [] c = "a" -> 97 [] c = "b" -> 98 [] c = "c" -> 99 [] c = "l" -> 108
    [] c = "x" -> 120

\* unicode.ToLower on one character
LowerChar(c) ==
  CASE c = "A" -> "a" [] c = "B" -> "b" [] c = "L" -> "l" [] OTHER -> c

\* strings.ToLower
ToLower(s) == [i \in 1..Len(s) |-> LowerChar(s[i])]

IsSpace(c) == c = " "

\* strings.TrimSpace
RECURSIVE TrimLeft(_)
TrimLeft(s) ==
  IF s # <<>> /\ IsSpace(Head(s)) THEN TrimLeft(Tail(s)) ELSE s

RECURSIVE TrimRight(_)
TrimRight(s) ==
  IF s # <<>> /\ IsSpace(s[Len(s)]) THEN TrimRight(SubSeq(s, 1, Len(s) - 1)) ELSE s

TrimSpace(s) == TrimRight(TrimLeft(s))

\* strings.Index: 0-based offset of the first occurrence of sub in s, or -1
Index(s, sub) ==
  LET hits == {i \in 0..(Len(s) - Len(sub)) : SubSeq(s, i + 1, i + Len(sub)) = sub}
  IN IF hits = {} THEN -1 ELSE CHOOSE i \in hits : \A j \in hits : i <= j

\* strings.Contains
StrContains(s, sub) == Index(s, sub) # -1

\* strings.Split(s, sep) with a one-character separator
RECURSIVE Split(_, _)
Split(s, sep) ==
  LET k == Index(s, <<sep>>)
  IN IF k = -1 THEN <<s>>
     ELSE <<SubSeq(s, 1, k)>> \o Split(SubSeq(s, k + 2, Len(s)), sep)

IsDigit(c) == Ascii(c) >= 48 /\ Ascii(c) <= 57

RECURSIVE DigitsValue(_, _)
DigitsValue(s, acc) ==
  IF s = <<>> THEN acc ELSE DigitsValue(Tail(s), acc * 10 + (Ascii(Head(s)) - 48))

\* strconv.Atoi: optional sign, then one or more decimal digits
Atoi(s) ==
  LET signed == s # <<>> /\ Head(s) \in {"+", "-"}
      body == IF signed THEN Tail(s) ELSE s
      ok == body # <<>> /\ \A i \in 1..Len(body) : IsDigit(body[i])
  IN [ok |-> ok,
      val |-> IF ~ok THEN 0
              ELSE IF signed /\ Head(s) = "-" THEN 0 - DigitsValue(body, 0)
              ELSE DigitsValue(body, 0)]

\* Go's < on strings: bytewise lexicographic
RECURSIVE StrLess(_, _)
StrLess(a, b) ==
  IF b = <<>> THEN FALSE
  ELSE IF a = <<>> THEN TRUE
  ELSE IF Head(a) # Head(b) THEN Ascii(Head(a)) < Ascii(Head(b))
  ELSE StrLess(Tail(a), Tail(b))

\* ------------------------------------------------------------------------
\* errors
\* ------------------------------------------------------------------------

NoErr == <<>>

\* fmt.Errorf(prefix + ": %w", err)
Wrap(prefix, err) == <<prefix>> \o err

\* strings.Contains(err.Error(), fragment), for a fragment that is one of the
\* message fragments of the chain
ErrContains(err, fragment) == \E i \in 1..Len(err) : err[i] = fragment

\* the run-time panic of an index or slice expression whose position is out
\* of range; it unwinds the call in place of a returned error
Panic == <<"panic: runtime error: index out of range">>

\* ------------------------------------------------------------------------
\* internal/dependency: records and the filter
\* ------------------------------------------------------------------------

\* module paths the model draws from; they share characters so that patterns
\* match several of them, one has a hyphen and one has upper-case letters
PathAB == <<"a", "/", "b">>
PathAC == <<"a", "-", "c">>
PathBA == <<"B", "/", "a">>
PathXB == <<"x", "/", "a", "b">>
PathPool == {PathAB, PathAC, PathBA, PathXB}

\* dependency.Dependency (the version is an opaque token and is left out)
Dep(path, indirect) == [Path |-> path, Indirect |-> indirect]

\* the mutant keeps the records the code drops
FilterDependenciesKeepsIndirect(deps, includeIndirect) ==
  IF includeIndirect THEN deps ELSE SelectSeq(deps, LAMBDA d : d.Indirect)

\* manager.FilterDependencies
FilterDependencies(deps, includeIndirect) ==
  IF includeIndirect THEN deps ELSE SelectSeq(deps, LAMBDA d : ~d.Indirect)

\* ------------------------------------------------------------------------
\* internal/selector: the selection parser
\* ------------------------------------------------------------------------

\* containsDependency
containsDependency(slice, dep) == \E i \in 1..Len(slice) : slice[i].Path = dep.Path

\* the mutant looks for every segment from the start of the path
RECURSIVE matchSegmentsFromStart(_, _, _)
matchSegmentsFromStart(path, parts, index) ==
  IF parts = <<>> THEN TRUE
  ELSE IF Head(parts) = <<>> THEN matchSegmentsFromStart(path, Tail(parts), index)
  ELSE IF Index(path, Head(parts)) = -1 THEN FALSE
  ELSE matchSegmentsFromStart(path, Tail(parts), index)

\* one step of matchesPattern's loop over the segments of the pattern
RECURSIVE matchSegments(_, _, _)
matchSegments(path, parts, index) ==
  IF parts = <<>> THEN TRUE
  ELSE IF Head(parts) = <<>> THEN matchSegments(path, Tail(parts), index)
  ELSE LET newIndex == Index(SubSeq(path, index + 1, Len(path)), Head(parts))
       IN IF newIndex = -1 THEN FALSE
          ELSE matchSegments(path, Tail(parts), index + newIndex + Len(Head(parts)))

\* the offsets index of the slice expressions path[index:] that the loop of
\* matchesPattern evaluates, in order
RECURSIVE sliceOffsets(_, _, _)
sliceOffsets(path, parts, index) ==
  IF parts = <<>> THEN <<>>
  ELSE IF Head(parts) = <<>> THEN sliceOffsets(path, Tail(parts), index)
  ELSE LET newIndex == Index(SubSeq(path, index + 1, Len(path)), Head(parts))
       IN IF newIndex = -1 THEN <<index>>
          ELSE <<index>> \o sliceOffsets(path, Tail(parts), index + newIndex + Len(Head(parts)))

\* matchesPattern
matchesPattern(path, pattern) ==
  IF ~StrContains(pattern, <<"*">>) THEN StrContains(path, pattern)
  ELSE matchSegments(path, Split(pattern, "*"), 0)

\* selectionParser.matchPattern: the loop over deps, appending to *selected
RECURSIVE matchPatternLoop(_, _, _, _, _)
matchPatternLoop(pattern, deps, i, selected, matched) ==
  IF i > Len(deps) THEN [matched |-> matched, selected |-> selected]
  ELSE IF matchesPattern(ToLower(deps[i].Path), pattern)
          /\ ~containsDependency(selected, deps[i])
       THEN matchPatternLoop(pattern, deps, i + 1, Append(selected, deps[i]), TRUE)
       ELSE matchPatternLoop(pattern, deps, i + 1, selected, matched)

\* the mutant starts with matched set
matchPatternStartsMatched(pattern, deps, selected) ==
  matchPatternLoop(pattern, deps, 1, selected, TRUE)

\* selectionParser.matchPattern
matchPattern(pattern, deps, selected) == matchPatternLoop(pattern, deps, 1, selected, FALSE)

\* the mutant lets a range whose start is after its end through
rangeOutOfBoundsIgnoresOrder(start, end, deps) == start < 1 \/ end > Len(deps)

\* selectionParser.parseRange: the bounds check on start and end
rangeOutOfBounds(start, end, deps) == start < 1 \/ end > Len(deps) \/ start > end

\* selectionParser.parseRange
parseRange(part, deps) ==
  LET rangeParts == Split(part, "-")
  IN IF Len(rangeParts) # 2
     THEN [deps |-> <<>>, err |-> <<"invalid range format">>]
     ELSE LET start == Atoi(TrimSpace(rangeParts[1]))
              end == Atoi(TrimSpace(rangeParts[2]))
          IN IF ~start.ok
             THEN [deps |-> <<>>, err |-> <<"invalid start number in range">>]
             ELSE IF ~end.ok
             THEN [deps |-> <<>>, err |-> <<"invalid end number in range">>]
             ELSE IF rangeOutOfBounds(start.val, end.val, deps)
             THEN [deps |-> <<>>, err |-> <<"range is out of bounds">>]
             ELSE IF \E i \in start.val..end.val : i \notin 1..Len(deps)
             THEN [deps |-> <<>>, err |-> Panic]
             ELSE [deps |-> SubSeq(deps, start.val, end.val), err |-> NoErr]

\* the mutant lets the position zero through
indexOutOfRangeAcceptsZero(num, deps) == num < 0 \/ num > Len(deps)

\* the mutant takes the last position of the list for out of range
indexOutOfRangeRejectsLast(num, deps) == num < 1 \/ num >= Len(deps)

\* selectionParser.ParseSelection: the bounds check on a number
indexOutOfRange(num, deps) == num < 1 \/ num > Len(deps)

\* selectionParser.ParseSelection: the loop over the clauses
RECURSIVE parseParts(_, _, _)
parseParts(parts, deps, selected) ==
  IF parts = <<>> THEN [selected |-> selected, err |-> NoErr]
  ELSE LET part == TrimSpace(Head(parts))
       IN IF StrContains(part, <<"-">>)
          THEN LET r == parseRange(part, deps)
               IN IF r.err # NoErr THEN [selected |-> <<>>, err |-> r.err]
                  ELSE parseParts(Tail(parts), deps, selected \o r.deps)
          ELSE IF Atoi(part).ok
          THEN LET num == Atoi(part).val
               IN IF indexOutOfRange(num, deps)
                  THEN [selected |-> <<>>, err |-> <<"number is out of range">>]
                  ELSE IF num \notin 1..Len(deps)
                  THEN [selected |-> <<>>, err |-> Panic]
                  ELSE parseParts(Tail(parts), deps,
                                  IF containsDependency(selected, deps[num])
                                  THEN selected ELSE Append(selected, deps[num]))
          ELSE LET m == matchPattern(part, deps, selected)
               IN IF ~m.matched
                  THEN [selected |-> <<>>, err |-> <<"no dependencies match pattern">>]
                  ELSE parseParts(Tail(parts), deps, m.selected)

\* the mutant looks for the word all before it lower-cases the line
ParseSelectionCaseSensitive(input, deps) ==
  LET in == TrimSpace(input)
  IN IF in = <<"a", "l", "l">> THEN [selected |-> deps, err |-> NoErr]
     ELSE parseParts(Split(ToLower(in), ","), deps, <<>>)

\* selectionParser.ParseSelection
ParseSelection(input, deps) ==
  LET in == ToLower(TrimSpace(input))
  IN IF in = <<"a", "l", "l">> THEN [selected |-> deps, err |-> NoErr]
     ELSE parseParts(Split(in, ","), deps, <<>>)

\* ------------------------------------------------------------------------
\* internal/dependency: the manager
\* ------------------------------------------------------------------------

\* sort.Slice(deps, func(i, j) { return deps[i].Path < deps[j].Path }); the
\* paths of one list are distinct, so the order it produces is unique
RECURSIVE InsertByPath(_, _)
InsertByPath(d, sorted) ==
  IF sorted = <<>> THEN <<d>>
  ELSE IF StrLess(d.Path, Head(sorted).Path) THEN <<d>> \o sorted
  ELSE <<Head(sorted)>> \o InsertByPath(d, Tail(sorted))

RECURSIVE SortByPath(_)
SortByPath(deps) ==
  IF deps = <<>> THEN <<>> ELSE InsertByPath(Head(deps), SortByPath(Tail(deps)))

\* every order of the elements of seq
OrdersOf(seq) ==
  LET n == Len(seq)
  IN {[i \in 1..n |-> seq[f[i]]] :
        f \in {g \in [1..n -> 1..n] : \A i, j \in 1..n : i # j => g[i] # g[j]}}

\* the less function of the sorts in GetDependencies and
\* GetUpdatableDependencies
lessByPath(depA, depB) == StrLess(depA.Path, depB.Path)

\* sort.Slice by path, as GetDependencies and GetUpdatableDependencies call
\* it: the sort is not stable, so it may leave the slice in any order in which
\* no record is less than one before it
sortSliceByPath(deps) ==
  {p \in OrdersOf(deps) : \A i, j \in 1..Len(p) : i < j => ~lessByPath(p[j], p[i])}

\* the less function of manager.sortDependencies: direct records first, then
\* by path
lessDirectFirst(depA, depB) ==
  IF depA.Indirect # depB.Indirect THEN ~depA.Indirect
  ELSE StrLess(depA.Path, depB.Path)

\* the mutant compares the kinds of the records and not their paths
sortDependenciesByKindOnly(deps) ==
  {p \in OrdersOf(deps) :
     \A i, j \in 1..Len(p) : i < j => ~(p[j].Indirect # p[i].Indirect /\ ~p[j].Indirect)}

\* manager.sortDependencies
sortDependencies(deps) ==
  {p \in OrdersOf(deps) : \A i, j \in 1..Len(p) : i < j => ~lessDirectFirst(p[j], p[i])}

\* one JSON object of `go list -u -m -json all`
Module(path, version, indirect, main, update) ==
  [Path |-> path, Version |-> version, Indirect |-> indirect, Main |-> main,
   Update |-> update]

\* the kinds of module the model draws: with and without an update, direct
\* and indirect, the main module, and a module without a version
ModulesOf(path) ==
  {Module(path, "v1", FALSE, FALSE, TRUE), Module(path, "v1", TRUE, FALSE, TRUE),
   Module(path, "v1", FALSE, FALSE, FALSE), Module(path, "", FALSE, TRUE, FALSE),
   Module(path, "", FALSE, FALSE, TRUE)}

\* sequences of at most n values drawn from the sets Of(p), with distinct p
RECURSIVE DistinctLists(_, _, _)
DistinctLists(paths, Of(_), n) ==
  IF n = 0 THEN {<<>>}
  ELSE {<<>>} \cup UNION {UNION {{<<m>> \o rest : rest \in DistinctLists(paths \ {p}, Of, n - 1)}
                                  : m \in Of(p)} : p \in paths}

\* what the go list command can print
ModuleLists == DistinctLists(PathPool, ModulesOf, MaxModules)

\* the require directives of go.mod
RequiresOf(path) == {Dep(path, FALSE), Dep(path, TRUE)}

RequireLists == DistinctLists(PathPool, RequiresOf, MaxModules)

\* the states of the go.mod file: missing, malformed, or parsed
GoModFiles ==
  {[state |-> "unreadable", requires |-> <<>>], [state |-> "malformed", requires |-> <<>>]}
  \cup {[state |-> "ok", requires |-> r] : r \in RequireLists}

\* manager.GetDependencies
GetDependencies(gomod) ==
  IF gomod.state = "unreadable"
  THEN [deps |-> <<>>, err |-> <<"reading go.mod", "no such file or directory">>]
  ELSE IF gomod.state = "malformed"
  THEN [deps |-> <<>>, err |-> <<"parsing go.mod", "syntax error">>]
  ELSE [deps |-> SortByPath(gomod.requires), err |-> NoErr]

\* manager.GetUpdatableDependencies, when the go list command succeeded: the
\* decoding loop, the updatable filter and the sort
UpdatableOf(modules) ==
  LET kept == SelectSeq(modules, LAMBDA m : ~m.Main /\ m.Version # "")
      allDeps == [i \in 1..Len(kept) |-> Dep(kept[i].Path, kept[i].Indirect)]
      updatableMap == {kept[i].Path : i \in {j \in 1..Len(kept) : kept[j].Update}}
  IN SortByPath(SelectSeq(allDeps, LAMBDA d : d.Path \in updatableMap))

\* what manager.GetUpdatableDependencies returns when the go list command
\* succeeded, for every output of the command
GoListOutcomes == {[deps |-> UpdatableOf(m), err |-> NoErr] : m \in ModuleLists}

\* what manager.GetUpdatableDependencies returns when the go list command
\* failed: the result of GetDependencies, for every state of go.mod
GoModOutcomes == {GetDependencies(f) : f \in GoModFiles}

\* the methods of dependency.Manager that return the list of the module
ManagerMethods == {"GetDependencies", "GetUpdatableDependencies"}

\* manager.GetUpdatableDependencies: the go list command fails and go.mod is
\* read instead, or its output is decoded
GetUpdatableResult(goListFails, modules, gomod) ==
  IF goListFails THEN GetDependencies(gomod)
  ELSE [deps |-> UpdatableOf(modules), err |-> NoErr]

\* ------------------------------------------------------------------------
\* internal/updater
\* ------------------------------------------------------------------------

\* what CommandRunner.Run can return for a command that failed
CmdFailed == <<"command failed", "exit status 1">>
CmdResults == {NoErr, CmdFailed}

\* updater.UpdateResult
UpdateResult(updated, failed, success) ==
  [Updated |-> updated, Failed |-> failed, Success |-> success]

\* the mutant records a failed record as updated too
RECURSIVE updateLoopCountsFailures(_, _, _)
updateLoopCountsFailures(deps, errs, result) ==
  IF deps = <<>> THEN result
  ELSE IF Head(errs) # NoErr
  THEN updateLoopCountsFailures(Tail(deps), Tail(errs),
         [result EXCEPT !.Failed = Append(@, [Dependency |-> Head(deps), Error |-> Head(errs)]),
                        !.Updated = Append(@, Head(deps))])
  ELSE updateLoopCountsFailures(Tail(deps), Tail(errs),
                                [result EXCEPT !.Updated = Append(@, Head(deps))])

\* goUpdater.UpdateDependencies: the loop over deps; errs[i] is what the
\* command runner returned for the i-th record
RECURSIVE updateLoop(_, _, _)
updateLoop(deps, errs, result) ==
  IF deps = <<>> THEN result
  ELSE IF Head(errs) # NoErr
  THEN updateLoop(Tail(deps), Tail(errs),
                  [result EXCEPT !.Failed = Append(@, [Dependency |-> Head(deps), Error |-> Head(errs)])])
  ELSE updateLoop(Tail(deps), Tail(errs),
                  [result EXCEPT !.Updated = Append(@, Head(deps))])

\* the mutant reports success whatever failed
UpdateDependenciesAlwaysSuccess(deps, errs) ==
  LET result == updateLoop(deps, errs, UpdateResult(<<>>, <<>>, FALSE))
  IN [result EXCEPT !.Success = TRUE]

\* goUpdater.UpdateDependencies
UpdateDependencies(deps, errs) ==
  LET result == updateLoop(deps, errs, UpdateResult(<<>>, <<>>, FALSE))
  IN [result EXCEPT !.Success = (Len(result.Failed) = 0)]

\* the commands goUpdater.UpdateDependencies hands to the command runner
UpdateCommands(deps, verbose) ==
  [i \in 1..Len(deps) |-> [name |-> "go get -u", path |-> deps[i].Path, verbose |-> verbose]]

\* the command goUpdater.RunModTidy hands to the command runner
TidyCommand(verbose) == [name |-> "go mod tidy", path |-> <<>>, verbose |-> verbose]

\* ------------------------------------------------------------------------
\* internal/app: the state of one App.Run
\* ------------------------------------------------------------------------

VARIABLES
  cfg,              \* config.Config: List, Interactive, Verbose, All, Selective
  pc,               \* where App.Run stands
  exit,             \* the return statement App.Run left by, "" while it runs
  runErr,           \* the error App.Run returned
  allUpdatableDeps, \* App.Run: allUpdatableDeps
  filteredDeps,     \* App.Run: filteredDeps, the list handed to the selection
  pending,          \* Select: selected, parsed and waiting for the confirmation
  lastReport,       \* Select: what the last turn of the loop told the user
  selResult,        \* <<the SelectionResult that Select returned>>, <<>> before
  \* the exchange of Select with the user, kept until App.Run has taken the
  \* selection and empty again from then on
  lastRead,         \* <<what the last ReadInput of Select returned>>, <<>> before
  asked,            \* the answer to the Confirm that followed the last line, "" if none did
  turn,             \* the turn of Select's loop: "none" before the first read,
                    \* "first", and "later" for every turn after the first
  selectedDeps,     \* App.Run: selectedDeps
  proceedAnswer,    \* App.Run: the answer to its confirmation, "" before it is asked
  printed,          \* the list given to the last PrintDependencies, <<>> before
  console,          \* messages App wrote with Info, Warning and Success
  allResults,       \* updateWithProgress: allResults
  finalResult,      \* <<updateWithProgress's finalResult>>, <<>> before
  calls,            \* the commands handed to the command runner, in order
  cmdErrs,          \* what the command runner returned for each of calls
  parseIn,          \* the arguments of a ParseSelection call
  parseOut,         \* <<what that call returned>>, <<>> before
  filterIn,         \* the arguments of a FilterDependencies call
  filterOut,        \* <<what that call returned>>, <<>> before
  mgrIn,            \* a call of the manager: the method, and what it finds
  mgrOut,           \* <<what that call returned>>, <<>> before
  runs,             \* the sort and filter calls made on one list, in order
  matchIn,          \* the arguments of a matchesPattern call
  matchOut          \* <<what that call returned>>, <<>> before

appVars ==
  <<cfg, pc, exit, runErr, allUpdatableDeps, filteredDeps, pending, lastReport,
    selResult, lastRead, asked, turn, selectedDeps, proceedAnswer, printed, console, allResults, finalResult,
    calls, cmdErrs>>

unitVars ==
  <<parseIn, parseOut, filterIn, filterOut, mgrIn, mgrOut, runs, matchIn, matchOut>>

vars == <<appVars, unitVars>>

\* what the user interface of the selector has been asked so far
uiVars == <<lastRead, asked, turn>>

selVars == <<pending, lastReport, selResult, uiVars>>

\* the answers the user gave to App.Run itself
ansVars == <<proceedAnswer>>

updVars == <<allResults, finalResult, calls, cmdErrs>>


Configs == [List : BOOLEAN, Interactive : BOOLEAN, Verbose : BOOLEAN,
            All : BOOLEAN, Selective : BOOLEAN]

\* Config.ShouldIncludeIndirect
ShouldIncludeIndirect(c) == c.All

\* selector.SelectionResult
SelectionResult(selected, cancelled, error) ==
  [Selected |-> selected, Cancelled |-> cancelled, Error |-> error]

AppIdle ==
  /\ pc = "start" /\ exit = "" /\ runErr = NoErr
  /\ allUpdatableDeps = <<>> /\ filteredDeps = <<>>
  /\ pending = <<>> /\ lastReport = "" /\ selResult = <<>>
  /\ lastRead = <<>> /\ asked = "" /\ turn = "none"
  /\ selectedDeps = <<>> /\ proceedAnswer = "" /\ printed = <<>> /\ console = {}
  /\ allResults = <<>> /\ finalResult = <<>> /\ calls = <<>> /\ cmdErrs = <<>>

ParseIdle == parseIn = [input |-> <<>>, deps |-> <<>>] /\ parseOut = <<>>

FilterIdle == filterIn = [deps |-> <<>>, includeIndirect |-> FALSE] /\ filterOut = <<>>

ManagerIdle ==
  /\ mgrIn = [fn |-> "", goListFails |-> FALSE, modules |-> <<>>,
              gomod |-> [state |-> "ok", requires |-> <<>>]]
  /\ mgrOut = <<>>

MatchIdle == matchIn = [path |-> <<>>, pattern |-> <<>>] /\ matchOut = <<>>

UnitIdle == ParseIdle /\ FilterIdle /\ ManagerIdle /\ runs = <<>> /\ MatchIdle

\* App.New followed by the call of Run, for every configuration of the flags
Init == cfg \in Configs /\ AppIdle /\ UnitIdle

\* App.Run returns err by the return statement named how
Return(how, err) == pc' = "done" /\ exit' = how /\ runErr' = err

\* ------------------------------------------------------------------------
\* internal/app: App.Run, one action for each stretch between two calls that
\* wait for the outside (a command, the go.mod file, the user)
\* ------------------------------------------------------------------------

\* App.Run, from its start to the check of the list it was given: the go list
\* command fails or prints modules; when it fails the manager reads go.mod
GetUpdatableDependencies ==
  /\ pc = "start"
  /\ \E goListFails \in BOOLEAN :
       \E got \in IF goListFails THEN GoModOutcomes ELSE GoListOutcomes :
         IF got.err # NoErr
         THEN /\ Return("enumError", got.err)
              /\ UNCHANGED <<allUpdatableDeps, console>>
         ELSE IF Len(got.deps) = 0
         THEN /\ Return("upToDate", NoErr)
              /\ console' = console \cup {"All dependencies are up to date!"}
              /\ UNCHANGED allUpdatableDeps
         ELSE /\ allUpdatableDeps' = got.deps
              /\ pc' = "filter"
              /\ UNCHANGED <<exit, runErr, console>>
  /\ UNCHANGED <<cfg, filteredDeps, selVars, selectedDeps, printed, updVars, unitVars, ansVars>>

\* App.Run: the filter on direct and indirect records
Filter ==
  /\ pc = "filter"
  /\ LET filtered == FilterDependencies(allUpdatableDeps, ShouldIncludeIndirect(cfg))
     IN /\ filteredDeps' = filtered
        /\ IF Len(filtered) = 0
           THEN /\ Return("upToDate", NoErr)
                /\ console' = console \cup
                     (IF ShouldIncludeIndirect(cfg)
                      THEN {"All dependencies are up to date!"}
                      ELSE {"All direct dependencies are up to date!"})
           ELSE /\ pc' = "select"
                /\ UNCHANGED <<exit, runErr, console>>
  /\ UNCHANGED <<cfg, allUpdatableDeps, selVars, selectedDeps, printed, updVars, unitVars, ansVars>>

\* App.selectDependencies without --select: every record, printed
SelectAll ==
  /\ pc = "select" /\ ~cfg.Selective
  /\ printed' = filteredDeps
  /\ selectedDeps' = filteredDeps
  /\ pc' = "selected"
  /\ UNCHANGED <<cfg, exit, runErr, allUpdatableDeps, filteredDeps, selVars, console,
                 updVars, unitVars, ansVars>>

\* ------------------------------------------------------------------------
\* internal/selector: interactiveSelector.Select, called by
\* App.selectDependencies with --select
\* ------------------------------------------------------------------------

\* the lines the user types at the selection prompt
UserLines ==
  {<<>>, <<" ">>, <<"a", "l", "l">>, <<"1">>, <<"2">>, <<"2", ",", "1">>,
   <<"1", "-", "2">>, <<"1", ",", "1", "-", "2">>, <<"9">>, <<"a">>, <<"x", "x">>}

\* what ReadInput returns when the input stream fails
ReadFailed == <<"EOF">>

\* the mutant takes a result with an Error for an empty selection
SelectReturnsIgnoresError(result) ==
  /\ selResult' = <<result>>
  /\ pending' = <<>>
  /\ lastReport' = ""
  /\ selectedDeps' = IF result.Cancelled THEN <<>> ELSE result.Selected
  /\ pc' = "selected"
  /\ UNCHANGED <<exit, runErr>>

\* App.selectDependencies, after Select returned result, and App.Run's check
\* of the error it gives back
SelectReturns(result) ==
  /\ selResult' = <<result>>
  /\ pending' = <<>>
  /\ lastReport' = ""
  /\ IF result.Error # NoErr
     THEN /\ Return("selectError", Wrap("dependency selection failed", result.Error))
          /\ UNCHANGED selectedDeps
     ELSE /\ selectedDeps' = IF result.Cancelled THEN <<>> ELSE result.Selected
          /\ pc' = "selected"
          /\ UNCHANGED <<exit, runErr>>

\* Select, up to its loop: the list is shown with its positions
SelectBegin ==
  /\ pc = "select" /\ cfg.Selective
  /\ IF Len(filteredDeps) = 0
     THEN /\ SelectReturns(SelectionResult(<<>>, FALSE, NoErr))
          /\ UNCHANGED <<printed, uiVars>>
     ELSE /\ printed' = filteredDeps
          /\ pc' = "prompt"
          /\ UNCHANGED <<exit, runErr, selVars, selectedDeps>>
  /\ UNCHANGED <<cfg, allUpdatableDeps, filteredDeps, console, updVars, unitVars, ansVars>>

\* the mutant marks the result of a failed read as cancelled too
OnReadErrorAlsoCancels(err) ==
  /\ SelectReturns(SelectionResult(<<>>, TRUE, Wrap("reading input", err)))
  /\ UNCHANGED printed

\* Select: ReadInput returned an error
OnReadError(err) ==
  /\ SelectReturns(SelectionResult(<<>>, FALSE, Wrap("reading input", err)))
  /\ UNCHANGED printed

\* the mutant goes on to parse a line that is empty
isEmptyInputNever(input) == FALSE

\* Select: the test on the trimmed line
isEmptyInput(input) == input = <<>>

\* Select: the line is empty
OnEmptyInput ==
  /\ SelectReturns(SelectionResult(<<>>, TRUE, NoErr))
  /\ UNCHANGED printed

\* the mutant gives the parse error back as the error of the selection
OnParseErrorReturnsIt(err) ==
  /\ SelectReturns(SelectionResult(<<>>, FALSE, Wrap("invalid selection", err)))
  /\ UNCHANGED printed

\* Select: ParseSelection returned an error
OnParseError(err) ==
  /\ lastReport' = "Invalid selection"
  /\ UNCHANGED <<pc, exit, runErr, pending, selResult, selectedDeps, printed>>

\* Select: ParseSelection returned no record
OnNothingSelected ==
  /\ lastReport' = "No dependencies matched your selection"
  /\ UNCHANGED <<pc, exit, runErr, pending, selResult, selectedDeps, printed>>

\* Select: the selection is shown and the confirmation is asked for
OnSelected(selected) ==
  /\ pending' = selected
  /\ printed' = selected
  /\ lastReport' = ""
  /\ pc' = "confirm"
  /\ UNCHANGED <<exit, runErr, selResult, selectedDeps>>

\* one turn of Select's loop, from ReadInput to the confirmation prompt
SelectReadInput ==
  /\ pc = "prompt"
  /\ turn' = IF turn = "none" THEN "first" ELSE "later"
  /\ asked' = ""
  /\ \/ /\ lastRead' = <<[line |-> <<>>, err |-> ReadFailed]>>
        /\ OnReadError(ReadFailed)
     \/ \E line \in UserLines :
          /\ lastRead' = <<[line |-> line, err |-> NoErr]>>
          /\ LET input == TrimSpace(line)
                 parsed == ParseSelection(input, filteredDeps)
             IN IF isEmptyInput(input) THEN OnEmptyInput
                ELSE IF parsed.err # NoErr THEN OnParseError(parsed.err)
                ELSE IF Len(parsed.selected) = 0 THEN OnNothingSelected
                ELSE OnSelected(parsed.selected)
  /\ UNCHANGED <<cfg, allUpdatableDeps, filteredDeps, console, updVars, unitVars, ansVars>>

\* the mutant gives up after a declined confirmation in a turn after the first
OnDeclineGivesUp ==
  IF turn = "later"
  THEN SelectReturns(SelectionResult(<<>>, TRUE, NoErr))
  ELSE /\ lastReport' = "Let's try again..."
       /\ pending' = <<>>
       /\ pc' = "prompt"
       /\ UNCHANGED <<exit, runErr, selResult, selectedDeps>>

\* Select: the user declined the selection
OnDecline ==
  /\ lastReport' = "Let's try again..."
  /\ pending' = <<>>
  /\ pc' = "prompt"
  /\ UNCHANGED <<exit, runErr, selResult, selectedDeps>>

\* the mutant returns the selection whatever the user answered
SelectConfirmIgnoresAnswer ==
  /\ pc = "confirm"
  /\ \E accepted \in BOOLEAN :
       /\ asked' = IF accepted THEN "yes" ELSE "no"
       /\ SelectReturns(SelectionResult(pending, FALSE, NoErr))
  /\ UNCHANGED <<cfg, allUpdatableDeps, filteredDeps, printed, console, updVars, unitVars,
                 ansVars, lastRead, turn>>

\* the end of a turn of Select's loop: the user accepts or declines
SelectConfirm ==
  /\ pc = "confirm"
  /\ \E accepted \in BOOLEAN :
       /\ asked' = IF accepted THEN "yes" ELSE "no"
       /\ IF accepted
          THEN SelectReturns(SelectionResult(pending, FALSE, NoErr))
          ELSE OnDecline
  /\ UNCHANGED <<cfg, allUpdatableDeps, filteredDeps, printed, console, updVars, unitVars,
                 ansVars, lastRead, turn>>

\* ------------------------------------------------------------------------
\* internal/app: from the selection to the update
\* ------------------------------------------------------------------------

\* the mutant goes on to the update in list mode
AfterSelectIgnoresList ==
  /\ pc = "selected"
  /\ IF Len(selectedDeps) = 0
     THEN /\ Return("noneSelected", NoErr)
          /\ console' = console \cup {"No dependencies selected for update"}
     ELSE IF cfg.Interactive /\ ~cfg.Selective
     THEN /\ pc' = "confirmUpdate"
          /\ UNCHANGED <<exit, runErr, console>>
     ELSE /\ pc' = "update"
          /\ console' = console \cup {"Updating dependencies..."}
          /\ UNCHANGED <<exit, runErr>>
  /\ lastRead' = <<>> /\ asked' = "" /\ turn' = "none"
  /\ UNCHANGED <<cfg, allUpdatableDeps, filteredDeps, pending, lastReport, selResult,
                 selectedDeps, printed, updVars, unitVars, ansVars>>

\* App.Run, from the selection it got to the update: nothing selected, list
\* mode, and the confirmation of interactive mode
AfterSelect ==
  /\ pc = "selected"
  /\ IF Len(selectedDeps) = 0
     THEN /\ Return("noneSelected", NoErr)
          /\ console' = console \cup {"No dependencies selected for update"}
     ELSE IF cfg.List
     THEN /\ Return("list", NoErr)
          /\ UNCHANGED console
     ELSE IF cfg.Interactive /\ ~cfg.Selective
     THEN /\ pc' = "confirmUpdate"
          /\ UNCHANGED <<exit, runErr, console>>
     ELSE /\ pc' = "update"
          /\ console' = console \cup {"Updating dependencies..."}
          /\ UNCHANGED <<exit, runErr>>
  /\ lastRead' = <<>> /\ asked' = "" /\ turn' = "none"
  /\ UNCHANGED <<cfg, allUpdatableDeps, filteredDeps, pending, lastReport, selResult,
                 selectedDeps, printed, updVars, unitVars, ansVars>>

\* the mutant updates whatever the user answers
ConfirmUpdateIgnoresAnswer ==
  /\ pc = "confirmUpdate"
  /\ \E proceed \in BOOLEAN :
       /\ proceedAnswer' = IF proceed THEN "yes" ELSE "no"
       /\ pc' = "update"
       /\ console' = console \cup {"Updating dependencies..."}
       /\ UNCHANGED <<exit, runErr>>
  /\ UNCHANGED <<cfg, allUpdatableDeps, filteredDeps, selVars, selectedDeps, printed,
                 updVars, unitVars>>

\* App.Run: the answer to "Do you want to proceed with the update?"
ConfirmUpdate ==
  /\ pc = "confirmUpdate"
  /\ \E proceed \in BOOLEAN :
       /\ proceedAnswer' = IF proceed THEN "yes" ELSE "no"
       /\ IF proceed
          THEN /\ pc' = "update"
               /\ console' = console \cup {"Updating dependencies..."}
               /\ UNCHANGED <<exit, runErr>>
          ELSE /\ Return("declined", NoErr)
               /\ console' = console \cup {"Update cancelled"}
  /\ UNCHANGED <<cfg, allUpdatableDeps, filteredDeps, selVars, selectedDeps, printed,
                 updVars, unitVars>>

\* ------------------------------------------------------------------------
\* internal/app: App.performUpdate and App.updateWithProgress
\* ------------------------------------------------------------------------

\* the mutant leaves the loop at the first record whose update failed
updateLoopDoneBreaksOnFailure ==
  \/ Len(allResults) = Len(selectedDeps)
  \/ (allResults # <<>> /\ ~allResults[Len(allResults)].Success)

\* updateWithProgress: `for i, dep := range deps` has visited every record
updateLoopDone == Len(allResults) = Len(selectedDeps)

\* updateWithProgress: one turn of the loop, a call of UpdateDependencies
\* with the one record dep, whose command succeeds or fails
UpdateNext ==
  /\ pc = "update" /\ ~updateLoopDone
  /\ \E err \in CmdResults :
       LET dep == selectedDeps[Len(allResults) + 1]
           singleResult == UpdateDependencies(<<dep>>, <<err>>)
       IN /\ allResults' = Append(allResults, singleResult)
          /\ calls' = calls \o UpdateCommands(<<dep>>, cfg.Verbose)
          /\ cmdErrs' = Append(cmdErrs, err)
  /\ UNCHANGED <<cfg, pc, exit, runErr, allUpdatableDeps, filteredDeps, selVars,
                 selectedDeps, printed, console, finalResult, unitVars, ansVars>>

\* updateWithProgress: the loop that folds allResults into finalResult
RECURSIVE mergeResults(_, _)
mergeResults(results, final) ==
  IF results = <<>> THEN final
  ELSE mergeResults(Tail(results),
         UpdateResult(final.Updated \o Head(results).Updated,
                      final.Failed \o Head(results).Failed,
                      IF ~Head(results).Success THEN FALSE ELSE final.Success))

\* the mutant returns without the tidy step when an update failed
AggregateSkipsTidyOnFailure ==
  /\ pc = "update" /\ updateLoopDone
  /\ LET final == mergeResults(allResults, UpdateResult(<<>>, <<>>, TRUE))
     IN /\ finalResult' = <<final>>
        /\ IF Len(final.Failed) > 0
           THEN Return("updated", NoErr)
           ELSE pc' = "tidy" /\ UNCHANGED <<exit, runErr>>
  /\ UNCHANGED <<cfg, allUpdatableDeps, filteredDeps, selVars, selectedDeps, printed,
                 console, allResults, calls, cmdErrs, unitVars, ansVars>>

\* updateWithProgress after its loop, and performUpdate's report of the result
Aggregate ==
  /\ pc = "update" /\ updateLoopDone
  /\ finalResult' = <<mergeResults(allResults, UpdateResult(<<>>, <<>>, TRUE))>>
  /\ pc' = "tidy"
  /\ UNCHANGED <<cfg, exit, runErr, allUpdatableDeps, filteredDeps, selVars,
                 selectedDeps, printed, console, allResults, calls, cmdErrs, unitVars, ansVars>>

\* performUpdate from runModTidy to its return: the tidy command succeeds or
\* fails, the final status is written, and nil is returned
RunModTidy ==
  /\ pc = "tidy"
  /\ \E err \in CmdResults :
       /\ calls' = Append(calls, TidyCommand(cfg.Verbose))
       /\ cmdErrs' = Append(cmdErrs, err)
       /\ console' = console
            \cup (IF err # NoErr THEN {"go mod tidy failed"} ELSE {"go mod tidy completed"})
            \cup (IF Len(finalResult[1].Updated) > 0
                  THEN {"Dependency update completed!"}
                  ELSE IF Len(finalResult[1].Failed) > 0
                  THEN {"No dependencies were successfully updated due to errors"}
                  ELSE {})
  /\ Return("updated", NoErr)
  /\ UNCHANGED <<cfg, allUpdatableDeps, filteredDeps, selVars, selectedDeps, printed,
                 allResults, finalResult, unitVars, ansVars>>

\* ------------------------------------------------------------------------
\* App.Run as a whole
\* ------------------------------------------------------------------------

Next ==
  \/ GetUpdatableDependencies
  \/ Filter
  \/ SelectAll
  \/ SelectBegin
  \/ SelectReadInput
  \/ SelectConfirm
  \/ AfterSelect
  \/ ConfirmUpdate
  \/ UpdateNext
  \/ Aggregate
  \/ RunModTidy

Spec == Init /\ [][Next]_vars

\* ------------------------------------------------------------------------
\* ParseSelection on its own: one call, for every line and every list
\* ------------------------------------------------------------------------

\* the clauses the lines are made of: positions in and out of range and below
\* zero, ranges (valid, reversed, out of bounds, with blanks, with a token
\* that is no number, with three tokens), patterns (paths with and without a
\* hyphen, substrings, wildcards, upper case, no match), the empty clause and
\* the word all
ClausePool ==
  {<<"1">>, <<"2">>, <<"0">>, <<"9">>,
   <<"1", "-", "2">>, <<"2", "-", "3">>, <<"3", "-", "1">>, <<" ", "1", " ", "-", " ", "2">>,
   <<"a", "-", "c">>, <<"a">>, <<"a", "*", "b">>, <<"*">>, <<>>,
   <<" ", "2", " ">>, <<"x", "x">>,
   <<" ", "A", "l", "l", " ">>, <<"0", "-", "2">>, <<"1", "-", "x">>,
   <<"a", "/", "b">>, <<"b", "*">>}

\* the lines of at most n clauses, joined with commas
RECURSIVE LinesOf(_)
LinesOf(n) ==
  IF n = 1 THEN ClausePool
  ELSE LinesOf(n - 1) \cup {l \o <<",">> \o c : l \in LinesOf(n - 1), c \in ClausePool}

\* lines of exactly n clauses, each one a position in range, a position out
\* of range or the path of a record
RECURSIVE LongLines(_)
LongLines(n) ==
  LET few == {<<"1">>, <<"9">>, <<"a", "/", "b">>}
  IN IF n = 1 THEN few ELSE {l \o <<",">> \o c : l \in LongLines(n - 1), c \in few}

\* lines of one clause that are tried by themselves only: the word all in
\* lower and in upper case, the third position, a number below zero, a range
\* of three tokens, a pattern of one letter and a pattern in upper case
WholeLines ==
  {<<"a", "l", "l">>, <<"A", "L", "L">>, <<"3">>, <<"-", "1">>, <<"1", "-", "2", "-", "3">>,
   <<"x">>, <<"B", "/", "A">>}

ParseLines == LinesOf(MaxClauses) \cup LongLines(MaxClauses + 1) \cup WholeLines

\* the lists ParseSelection is given: what the manager returns, filtered to
\* the direct records, so sorted by path and with distinct paths
ParseLists == {FilterDependencies(SortByPath(r), FALSE) : r \in RequireLists}

InitParse ==
  /\ cfg = [List |-> FALSE, Interactive |-> FALSE, Verbose |-> FALSE,
            All |-> FALSE, Selective |-> TRUE]
  /\ AppIdle
  /\ parseIn \in [input : ParseLines, deps : ParseLists]
  /\ parseOut = <<>>
  /\ FilterIdle /\ ManagerIdle /\ runs = <<>> /\ MatchIdle

\* the call p.ParseSelection(input, deps)
ParseCall ==
  /\ parseOut = <<>>
  /\ parseOut' = <<ParseSelection(parseIn.input, parseIn.deps)>>
  /\ UNCHANGED <<appVars, parseIn, filterIn, filterOut, mgrIn, mgrOut, runs, matchIn, matchOut>>

NextParse == ParseCall

SpecParse == InitParse /\ [][NextParse]_vars

\* ------------------------------------------------------------------------
\* FilterDependencies on its own: one call, for every list
\* ------------------------------------------------------------------------

\* every list of at most n records, in any order, repeated paths included
RECURSIVE AnyLists(_)
AnyLists(n) ==
  IF n = 0 THEN {<<>>}
  ELSE AnyLists(n - 1) \cup
       {Append(l, Dep(p, i)) : l \in AnyLists(n - 1), p \in PathPool, i \in BOOLEAN}

InitFilter ==
  /\ cfg = [List |-> FALSE, Interactive |-> FALSE, Verbose |-> FALSE,
            All |-> FALSE, Selective |-> FALSE]
  /\ AppIdle
  /\ ParseIdle /\ ManagerIdle /\ runs = <<>> /\ MatchIdle
  /\ filterIn \in [deps : AnyLists(MaxModules), includeIndirect : BOOLEAN]
  /\ filterOut = <<>>

\* the call m.FilterDependencies(deps, includeIndirect)
FilterCall ==
  /\ filterOut = <<>>
  /\ filterOut' = <<FilterDependencies(filterIn.deps, filterIn.includeIndirect)>>
  /\ UNCHANGED <<appVars, parseIn, parseOut, filterIn, mgrIn, mgrOut, runs, matchIn, matchOut>>

NextFilter == FilterCall

SpecFilter == InitFilter /\ [][NextFilter]_vars

\* ------------------------------------------------------------------------
\* The manager on its own: one call of GetDependencies or of
\* GetUpdatableDependencies, for every go.mod and every output of go list
\* ------------------------------------------------------------------------

ManagerInputs ==
  {[fn |-> "GetUpdatableDependencies", goListFails |-> FALSE, modules |-> m,
    gomod |-> [state |-> "ok", requires |-> <<>>]] : m \in ModuleLists}
  \cup {[fn |-> "GetUpdatableDependencies", goListFails |-> TRUE, modules |-> <<>>,
         gomod |-> g] : g \in GoModFiles}
  \cup {[fn |-> "GetDependencies", goListFails |-> FALSE, modules |-> <<>>,
         gomod |-> g] : g \in GoModFiles}

InitManager ==
  /\ cfg = [List |-> FALSE, Interactive |-> FALSE, Verbose |-> FALSE,
            All |-> FALSE, Selective |-> FALSE]
  /\ AppIdle
  /\ ParseIdle /\ FilterIdle /\ runs = <<>> /\ MatchIdle
  /\ mgrIn \in ManagerInputs
  /\ mgrOut = <<>>

\* the call m.GetDependencies()
GetDependenciesCall ==
  /\ mgrOut = <<>> /\ mgrIn.fn = "GetDependencies"
  /\ mgrOut' = <<GetDependencies(mgrIn.gomod)>>
  /\ UNCHANGED <<appVars, parseIn, parseOut, filterIn, filterOut, mgrIn, runs, matchIn, matchOut>>

\* the call m.GetUpdatableDependencies()
GetUpdatableDependenciesCall ==
  /\ mgrOut = <<>> /\ mgrIn.fn = "GetUpdatableDependencies"
  /\ mgrOut' = <<GetUpdatableResult(mgrIn.goListFails, mgrIn.modules, mgrIn.gomod)>>
  /\ UNCHANGED <<appVars, parseIn, parseOut, filterIn, filterOut, mgrIn, runs, matchIn, matchOut>>

NextManager == GetDependenciesCall \/ GetUpdatableDependenciesCall

SpecManager == InitManager /\ [][NextManager]_vars

\* ------------------------------------------------------------------------
\* The sorts and the filter of the manager, applied again and again to one
\* list with distinct paths and to what they returned
\* ------------------------------------------------------------------------

\* calls made on one list
MaxRuns == 2

InitCanon ==
  /\ cfg = [List |-> FALSE, Interactive |-> FALSE, Verbose |-> FALSE,
            All |-> FALSE, Selective |-> FALSE]
  /\ AppIdle
  /\ ParseIdle /\ ManagerIdle /\ MatchIdle
  /\ filterIn \in [deps : RequireLists, includeIndirect : BOOLEAN]
  /\ filterOut = <<>>
  /\ runs = <<>>

\* the lists at hand: the one given and the ones returned so far
RunInputs == {filterIn.deps} \cup {runs[i].out : i \in 1..Len(runs)}

Ran(op, in, out) ==
  /\ runs' = Append(runs, [op |-> op, in |-> in, out |-> out])
  /\ UNCHANGED <<appVars, parseIn, parseOut, filterIn, filterOut, mgrIn, mgrOut, matchIn, matchOut>>

\* the sort by path of GetDependencies and GetUpdatableDependencies
SortByPathRun ==
  /\ Len(runs) < MaxRuns
  /\ \E in \in RunInputs : \E out \in sortSliceByPath(in) : Ran("sortByPath", in, out)

\* m.sortDependencies(deps)
SortDependenciesRun ==
  /\ Len(runs) < MaxRuns
  /\ \E in \in RunInputs : \E out \in sortDependencies(in) : Ran("sortDependencies", in, out)

\* m.FilterDependencies(deps, includeIndirect)
FilterRun ==
  /\ Len(runs) < MaxRuns
  /\ \E in \in RunInputs :
       Ran("FilterDependencies", in, FilterDependencies(in, filterIn.includeIndirect))

NextCanon == SortByPathRun \/ SortDependenciesRun \/ FilterRun

SpecCanon == InitCanon /\ [][NextCanon]_vars

\* ------------------------------------------------------------------------
\* matchesPattern on its own: one call, for every path and every pattern
\* ------------------------------------------------------------------------

\* the longest path and the longest pattern the call is given
MaxPathLen == 4

MaxPatternLen == 5

\* the strings of at most n characters of chars
RECURSIVE StringsOf(_, _)
StringsOf(chars, n) ==
  IF n = 0 THEN {<<>>}
  ELSE StringsOf(chars, n - 1) \cup {Append(w, c) : w \in StringsOf(chars, n - 1), c \in chars}

InitMatch ==
  /\ cfg = [List |-> FALSE, Interactive |-> FALSE, Verbose |-> FALSE,
            All |-> FALSE, Selective |-> TRUE]
  /\ AppIdle
  /\ ParseIdle /\ FilterIdle /\ ManagerIdle /\ runs = <<>>
  /\ matchIn \in [path : StringsOf({"a", "b"}, MaxPathLen),
                   pattern : StringsOf({"a", "b", "*"}, MaxPatternLen)]
  /\ matchOut = <<>>

\* the call matchesPattern(path, pattern)
MatchCall ==
  /\ matchOut = <<>>
  /\ matchOut' = <<matchesPattern(matchIn.path, matchIn.pattern)>>
  /\ UNCHANGED <<appVars, parseIn, parseOut, filterIn, filterOut, mgrIn, mgrOut, runs, matchIn>>

NextMatch == MatchCall

SpecMatch == InitMatch /\ [][NextMatch]_vars

\* ------------------------------------------------------------------------
\* Properties
\* ------------------------------------------------------------------------

\* the paths of a list of records
PathsOf(deps) == [i \in 1..Len(deps) |-> deps[i].Path]

NoDuplicates(seq) == \A i, j \in 1..Len(seq) : i # j => seq[i] # seq[j]

\* the elements of seq at the positions in idx, in ascending position order
AtPositions(seq, idx) ==
  [k \in 1..Cardinality(idx) |->
     seq[CHOOSE i \in idx : Cardinality({j \in idx : j <= i}) = k]]

\* seq without the later occurrences of its elements
FirstOccurrences(seq) ==
  AtPositions(seq, {i \in 1..Len(seq) : \A j \in 1..(i - 1) : seq[j] # seq[i]})

\* the records one clause of a valid selection line refers to, in list order
ClauseRecords(part, deps) ==
  IF StrContains(part, <<"-">>)
  THEN SubSeq(deps, Atoi(TrimSpace(Split(part, "-")[1])).val,
              Atoi(TrimSpace(Split(part, "-")[2])).val)
  ELSE IF Atoi(part).ok THEN <<deps[Atoi(part).val]>>
  ELSE SelectSeq(deps, LAMBDA d : StrContains(ToLower(d.Path), part)
                                  \/ matchesPattern(ToLower(d.Path), part))

RECURSIVE ClausesRecords(_, _)
ClausesRecords(parts, deps) ==
  IF parts = <<>> THEN <<>>
  ELSE ClauseRecords(TrimSpace(Head(parts)), deps) \o ClausesRecords(Tail(parts), deps)

\* the records a valid selection line refers to, in the order of the clauses
LineRecords(input, deps) ==
  LET in == ToLower(TrimSpace(input))
  IN IF in = <<"a", "l", "l">> THEN deps ELSE ClausesRecords(Split(in, ","), deps)

\* C1: a successful ParseSelection result has no two records with the same
\* path, whatever clauses refer to the same record (a range that overlaps an
\* earlier index or range included), and its records are in the order of
\* their first selection.
C1_SelectionHasNoDuplicates ==
  (parseOut # <<>> /\ parseOut[1].err = NoErr) =>
    /\ NoDuplicates(PathsOf(parseOut[1].selected))
    /\ parseOut[1].selected = FirstOccurrences(LineRecords(parseIn.input, parseIn.deps))

\* the update commands among the commands run so far
UpdateCalls == SelectSeq(calls, LAMBDA c : c.name = "go get -u")

TidyCalls == SelectSeq(calls, LAMBDA c : c.name = "go mod tidy")

\* the update phase of App.Run is over: every record has been visited
UpdatesOver == pc = "tidy" \/ exit = "updated"

Succeeded == {i \in 1..Len(selectedDeps) : cmdErrs[i] = NoErr}

NotSucceeded == {i \in 1..Len(selectedDeps) : cmdErrs[i] # NoErr}

\* C3: after a batch update every record of the batch is in exactly one of
\* Updated and Failed, in Updated exactly when its command succeeded, and both
\* lists keep the order of the batch.
C3_UpdatedAndFailedPartitionBatch ==
  finalResult # <<>> =>
    /\ finalResult[1].Updated = AtPositions(selectedDeps, Succeeded)
    /\ [i \in 1..Len(finalResult[1].Failed) |-> finalResult[1].Failed[i].Dependency]
         = AtPositions(selectedDeps, NotSucceeded)
    /\ Len(finalResult[1].Updated) + Len(finalResult[1].Failed) = Len(selectedDeps)

\* C3 witness: three records, the second one failed.
C3_Witness ==
  /\ finalResult # <<>>
  /\ Len(selectedDeps) = 3
  /\ NotSucceeded = {2}
  /\ Len(finalResult[1].Updated) = 2
  /\ Len(finalResult[1].Failed) = 1

\* C4: the success flag of an update result is true exactly when its Failed
\* list is empty, for each UpdateDependencies call and for the result that
\* updateWithProgress puts together.
C4_SuccessIffNothingFailed ==
  /\ \A i \in 1..Len(allResults) : allResults[i].Success <=> (allResults[i].Failed = <<>>)
  /\ finalResult # <<>> => (finalResult[1].Success <=> (finalResult[1].Failed = <<>>))

\* C4 witness: a batch whose last update failed after an earlier one succeeded.
C4_Witness ==
  /\ finalResult # <<>>
  /\ ~finalResult[1].Success
  /\ Len(finalResult[1].Updated) >= 1
  /\ cmdErrs[Len(selectedDeps)] # NoErr

\* C5: a run that reaches the update phase runs the tidy command exactly once,
\* after the last update and never before or between updates, whether or not
\* updates failed.
C5_TidyOnceAfterUpdates ==
  /\ \A i \in 1..Len(calls) :
       calls[i].name = "go mod tidy" => (i = Len(calls) /\ i = Len(selectedDeps) + 1)
  /\ pc \in {"update", "tidy"} => TidyCalls = <<>>
  /\ (exit = "updated" \/ UpdateCalls # <<>>) /\ pc = "done" => Len(TidyCalls) = 1

\* C5 witness: every update failed and the tidy command was run after them.
C5_Witness ==
  /\ exit = "updated"
  /\ Len(selectedDeps) >= 2
  /\ Succeeded = {}
  /\ calls[Len(calls)].name = "go mod tidy"

\* C6: when GetUpdatableDependencies fails, Run returns an error that says
\* "failed to check for dependency updates", and no selection, update or tidy
\* takes place.
C6_EnumerationFailureReported ==
  exit = "enumError" =>
    /\ runErr # NoErr
    /\ ErrContains(runErr, "failed to check for dependency updates")
    /\ calls = <<>> /\ selResult = <<>> /\ printed = <<>>

C8_CancelRunsNothing ==
  /\ (selResult # <<>> /\ selResult[1].Cancelled) =>
       /\ calls = <<>>
       /\ pc \in {"selected", "done"}
       /\ pc = "done" => (exit = "noneSelected" /\ runErr = NoErr)
  /\ proceedAnswer = "no" => (calls = <<>> /\ pc = "done" /\ runErr = NoErr)

\* C8 witness: the selection was cancelled and Run has returned.
C8_Witness ==
  /\ selResult # <<>> /\ selResult[1].Cancelled
  /\ pc = "done"
  /\ Len(filteredDeps) >= 2

\* C9: when every update succeeds and the tidy command fails, Run returns an
\* error that says "go mod tidy failed".
C9_TidyFailureReturned ==
  (exit = "updated" /\ Succeeded = 1..Len(selectedDeps) /\ cmdErrs[Len(cmdErrs)] # NoErr) =>
    (runErr # NoErr /\ ErrContains(runErr, "go mod tidy failed"))

\* the positions of the direct records of a list
DirectPositions(deps) == {i \in 1..Len(deps) : ~deps[i].Indirect}

\* C10: FilterDependencies(L, false) is exactly the records of L that are not
\* indirect, in the order they have in L, and FilterDependencies(L, true) is L.
C10_FilterKeepsDirectInOrder ==
  filterOut # <<>> =>
    IF filterIn.includeIndirect
    THEN filterOut[1] = filterIn.deps
    ELSE filterOut[1] = AtPositions(filterIn.deps, DirectPositions(filterIn.deps))

\* C10 witness: a list with an indirect record between two direct ones,
\* filtered to the direct records.
C10_Witness ==
  /\ filterOut # <<>>
  /\ ~filterIn.includeIndirect
  /\ Len(filterIn.deps) = 3
  /\ DirectPositions(filterIn.deps) = {1, 3}
  /\ Len(filterOut[1]) = 2

\* every non-indirect record before every indirect one, and each of the two
\* groups in strictly ascending order of path
CanonicalOrder(deps) ==
  \A i, j \in 1..Len(deps) :
    i < j => /\ deps[i].Indirect => deps[j].Indirect
             /\ deps[i].Indirect = deps[j].Indirect => StrLess(deps[i].Path, deps[j].Path)

\* the two lists hold the same records the same number of times
SameRecords(a, b) ==
  /\ Len(a) = Len(b)
  /\ \A i \in 1..Len(a) :
       Cardinality({k \in 1..Len(a) : a[k] = a[i]}) = Cardinality({k \in 1..Len(b) : b[k] = a[i]})

\* the records a call of the manager collects before it sorts them
Collected(in) ==
  IF in.fn = "GetUpdatableDependencies" /\ ~in.goListFails
  THEN LET has == SelectSeq(in.modules, LAMBDA m : ~m.Main /\ m.Version # "" /\ m.Update)
       IN [i \in 1..Len(has) |-> Dep(has[i].Path, has[i].Indirect)]
  ELSE in.gomod.requires

\* C11: the list GetUpdatableDependencies and GetDependencies return is in
\* canonical order, every non-indirect record before every indirect one and
\* each group in strictly ascending order of path, and it holds exactly the
\* records collected, none lost and none twice.
C11_ManagerListInCanonicalOrder ==
  (mgrOut # <<>> /\ mgrOut[1].err = NoErr) =>
    /\ CanonicalOrder(mgrOut[1].deps)
    /\ SameRecords(mgrOut[1].deps, Collected(mgrIn))

\* C12: on a list with distinct paths the sorts and the filter are
\* deterministic, two calls on the same list return the same list, and
\* idempotent, a call on a list that the same operation returned gives that
\* list back.
C12_SortAndFilterIdempotent ==
  /\ \A i, j \in 1..Len(runs) :
       (runs[i].op = runs[j].op /\ runs[i].in = runs[j].in) => runs[i].out = runs[j].out
  /\ \A i, j \in 1..Len(runs) :
       (runs[i].op = runs[j].op /\ runs[j].in = runs[i].out) => runs[j].out = runs[j].in

\* C12 witness: sortDependencies moved the records of a list of three, and was
\* then applied to what it returned.
C12_Witness ==
  /\ Len(runs) = 2
  /\ runs[1].op = "sortDependencies" /\ runs[2].op = "sortDependencies"
  /\ Len(runs[1].in) = 3
  /\ runs[1].out # runs[1].in
  /\ runs[2].in = runs[1].out

\* the clauses of a selection line, trimmed, as ParseSelection sees them
Clauses(input) ==
  LET parts == Split(ToLower(TrimSpace(input)), ",")
  IN [k \in 1..Len(parts) |-> TrimSpace(parts[k])]

\* ParseSelection returned, and the line it was given is a list of clauses
ParsedClauses == parseOut # <<>> /\ ToLower(TrimSpace(parseIn.input)) # <<"a", "l", "l">>

\* the line is the word all, in any letter case, between any blanks
IsAllToken(input) ==
  \E i, j \in 0..Len(input) :
    /\ Len(input) = i + 3 + j
    /\ \A k \in 1..i : input[k] = " "
    /\ input[i + 1] \in {"a", "A"} /\ input[i + 2] \in {"l", "L"} /\ input[i + 3] \in {"l", "L"}
    /\ \A k \in (i + 4)..Len(input) : input[k] = " "

\* C13: for a list that is not empty, ParseSelection of the word all, in any
\* letter case and between any blanks, returns exactly the list, every record
\* in the order given, and does not read the line as clauses.
C13_AllSelectsTheList ==
  (parseOut # <<>> /\ IsAllToken(parseIn.input) /\ parseIn.deps # <<>>) =>
    parseOut[1] = [selected |-> parseIn.deps, err |-> NoErr]

\* C13 witness: the word all in mixed case between blanks, on a list of three.
C13_Witness ==
  /\ parseOut # <<>>
  /\ parseIn.input = <<" ", "A", "l", "l", " ">>
  /\ Len(parseIn.deps) = 3
  /\ parseOut[1].selected = parseIn.deps

\* the errors of a range clause that is not two numbers
InvalidRangeErrors ==
  {<<"invalid range format">>, <<"invalid start number in range">>,
   <<"invalid end number in range">>}

\* the clause is neither a range nor a number
IsPattern(part) == ~StrContains(part, <<"-">>) /\ ~Atoi(part).ok

\* the records of deps that a pattern matches, in list order
PatternRecords(part, deps) ==
  SelectSeq(deps, LAMBDA d : matchesPattern(ToLower(d.Path), part))

\* the error of one clause taken by itself, NoErr when it is valid
ClauseError(part, deps) ==
  IF StrContains(part, <<"-">>) THEN parseRange(part, deps).err
  ELSE IF Atoi(part).ok
  THEN (IF Atoi(part).val < 1 \/ Atoi(part).val > Len(deps)
        THEN <<"number is out of range">> ELSE NoErr)
  ELSE IF PatternRecords(part, deps) = <<>> THEN <<"no dependencies match pattern">>
  ELSE NoErr

\* the clauses before the k-th are positions and ranges within bounds
EarlierSettled(parts, k, deps) ==
  \A j \in 1..(k - 1) : ~IsPattern(parts[j]) /\ ClauseError(parts[j], deps) = NoErr

\* seq holds the record rec
Holds(seq, rec) == \E i \in 1..Len(seq) : seq[i] = rec

\* what ParseSelection must return for a clause that is the number n
IndexClauseHandled(n, parts) ==
  IF n < 1 \/ n > Len(parseIn.deps)
  THEN parseOut[1] = [selected |-> <<>>, err |-> <<"number is out of range">>]
  ELSE /\ parseOut[1].err = NoErr => Holds(parseOut[1].selected, parseIn.deps[n])
       /\ Len(parts) = 1 => parseOut[1] = [selected |-> <<parseIn.deps[n]>>, err |-> NoErr]

\* C14 as claimed: a clause that parses as one integer n fails with the error
\* "number n is out of range" whenever n < 1, zero and the negative integers
\* included, or n > len(deps), and otherwise contributes exactly the record at
\* position n.
C14_IntegerClauseChecked ==
  ParsedClauses =>
    LET parts == Clauses(parseIn.input)
    IN \A k \in 1..Len(parts) :
         (Atoi(parts[k]).ok /\ EarlierSettled(parts, k, parseIn.deps)) =>
           IndexClauseHandled(Atoi(parts[k]).val, parts)

\* C14 as amended: a clause without a hyphen that parses as one integer n fails
\* with the error "number n is out of range" whenever n < 1, zero included, or
\* n > len(deps), and otherwise contributes exactly the record at position n;
\* a negative integer has a hyphen, is read as a range and fails with the
\* invalid range error.
C14_IndexClauseChecked ==
  ParsedClauses =>
    LET parts == Clauses(parseIn.input)
    IN \A k \in 1..Len(parts) :
         (Atoi(parts[k]).ok /\ EarlierSettled(parts, k, parseIn.deps)) =>
           IF StrContains(parts[k], <<"-">>)
           THEN parseOut[1].selected = <<>> /\ parseOut[1].err \in InvalidRangeErrors
           ELSE IndexClauseHandled(Atoi(parts[k]).val, parts)

\* C14 witness: the position zero, on a list of three.
C14_Witness ==
  /\ parseOut # <<>>
  /\ parseIn.input = <<"0">>
  /\ Len(parseIn.deps) = 3
  /\ parseOut[1].err = <<"number is out of range">>

\* the tokens of a range clause are two numbers
TwoNumbers(part) ==
  LET tokens == Split(part, "-")
  IN Len(tokens) = 2 /\ Atoi(TrimSpace(tokens[1])).ok /\ Atoi(TrimSpace(tokens[2])).ok

\* C15: a range clause start-end of two integer tokens contributes exactly the
\* records at the positions start..end, in ascending order of position, when
\* 1 <= start <= end <= len(deps); it fails with the error "range is out of
\* bounds" when start < 1, end > len(deps) or start > end, and with an invalid
\* range error when it does not split into exactly two integer tokens.
C15_RangeClauseChecked ==
  ParsedClauses =>
    LET parts == Clauses(parseIn.input)
        deps == parseIn.deps
    IN \A k \in 1..Len(parts) :
         (StrContains(parts[k], <<"-">>) /\ EarlierSettled(parts, k, deps)) =>
           IF ~TwoNumbers(parts[k])
           THEN parseOut[1].selected = <<>> /\ parseOut[1].err \in InvalidRangeErrors
           ELSE LET start == Atoi(TrimSpace(Split(parts[k], "-")[1])).val
                    end == Atoi(TrimSpace(Split(parts[k], "-")[2])).val
                    records == [i \in 1..(end - start + 1) |-> deps[start + i - 1]]
                IN IF start < 1 \/ end > Len(deps) \/ start > end
                   THEN parseOut[1] = [selected |-> <<>>, err |-> <<"range is out of bounds">>]
                   ELSE /\ Len(parts) = 1 => parseOut[1] = [selected |-> records, err |-> NoErr]
                        /\ (k = 1 /\ parseOut[1].err = NoErr) =>
                             SubSeq(parseOut[1].selected, 1, Len(records)) = records
                        /\ parseOut[1].err = NoErr =>
                             \A i \in start..end : Holds(parseOut[1].selected, deps[i])

\* C15 witness: the range 2-3 on a list of three.
C15_Witness ==
  /\ parseOut # <<>>
  /\ parseIn.input = <<"2", "-", "3">>
  /\ Len(parseIn.deps) = 3
  /\ parseOut[1] = [selected |-> SubSeq(parseIn.deps, 2, 3), err |-> NoErr]

NoMatch == <<"no dependencies match pattern">>

\* C16: a pattern clause fails with the error "no dependencies match pattern"
\* if and only if no record of deps matches the pattern; a pattern whose
\* records were all selected by earlier clauses of the line does not fail.
C16_NoMatchIffNothingMatches ==
  ParsedClauses =>
    LET parts == Clauses(parseIn.input)
        deps == parseIn.deps
    IN \A k \in 1..Len(parts) :
         (IsPattern(parts[k]) /\ \A j \in 1..(k - 1) : ClauseError(parts[j], deps) = NoErr) =>
           IF PatternRecords(parts[k], deps) = <<>>
           THEN parseOut[1].err = NoMatch
           ELSE parseOut[1].err = NoMatch =>
                  \E j \in (k + 1)..Len(parts) : ClauseError(parts[j], deps) = NoMatch

\* C17: a line that is the full path of a record of the list selects that
\* record, whatever the path, a path with a hyphen included.
C17_FullPathSelectsRecord ==
  parseOut # <<>> =>
    \A i \in 1..Len(parseIn.deps) :
      TrimSpace(parseIn.input) = parseIn.deps[i].Path =>
        /\ parseOut[1].err = NoErr
        /\ Holds(parseOut[1].selected, parseIn.deps[i])

\* the clause is a prefix followed by one wildcard, without a hyphen
IsPrefixPattern(part) ==
  /\ Len(part) >= 2 /\ part[Len(part)] = "*"
  /\ \A i \in 1..(Len(part) - 1) : part[i] \notin {"*", "-"}

StartsWith(path, prefix) ==
  Len(path) >= Len(prefix) /\ SubSeq(path, 1, Len(prefix)) = prefix

\* C18: a line that is a pattern prefix*, one wildcard at the end and no
\* hyphen, selects exactly the records whose path starts with prefix, letter
\* case aside, and fails with the error "no dependencies match pattern" when
\* no path starts with prefix.
C18_PrefixWildcardSelectsByPrefix ==
  (ParsedClauses /\ Len(Clauses(parseIn.input)) = 1
     /\ IsPrefixPattern(Clauses(parseIn.input)[1])) =>
    LET part == Clauses(parseIn.input)[1]
        prefix == SubSeq(part, 1, Len(part) - 1)
        starting == SelectSeq(parseIn.deps, LAMBDA d : StartsWith(ToLower(d.Path), prefix))
    IN IF starting = <<>>
       THEN parseOut[1] = [selected |-> <<>>, err |-> NoMatch]
       ELSE parseOut[1] = [selected |-> starting, err |-> NoErr]

\* the clauses of the line that are not valid taken by themselves
InvalidClauses(parts, deps) == {k \in 1..Len(parts) : ClauseError(parts[k], deps) # NoErr}

\* C20: ParseSelection fails at the first clause, from left to right, that is
\* not valid, with the error of that clause, and then returns no record at
\* all, whatever valid clauses came before.
C20_FailsAtFirstInvalidClause ==
  ParsedClauses =>
    LET parts == Clauses(parseIn.input)
        deps == parseIn.deps
        bad == InvalidClauses(parts, deps)
    IN /\ parseOut[1].err # NoErr => parseOut[1].selected = <<>>
       /\ IF bad = {} THEN parseOut[1].err = NoErr
          ELSE parseOut[1].err
                 = ClauseError(parts[CHOOSE k \in bad : \A j \in bad : k <= j], deps)

\* sub occurs in s at the offset at
OccursAt(s, sub, at) == at + Len(sub) <= Len(s) /\ SubSeq(s, at + 1, at + Len(sub)) = sub

\* the segments of a pattern: the runs of characters between its wildcards
Segments(pattern) == SelectSeq(Split(pattern, "*"), LAMBDA seg : seg # <<>>)

\* the segments occur in the path one after the other, none before the end of
\* the one before it
OccurInOrder(path, segs) ==
  \E at \in [1..Len(segs) -> 0..Len(path)] :
    /\ \A i \in 1..Len(segs) : OccursAt(path, segs[i], at[i])
    /\ \A i \in 2..Len(segs) : at[i] >= at[i - 1] + Len(segs[i - 1])

\* C19: matchesPattern(path, pattern) is true exactly when the pattern has no
\* wildcard and occurs in the path, or has a wildcard and its segments that
\* are not empty occur in the path in order without overlapping; the empty
\* pattern and a pattern of wildcards only match every path.
C19_MatchesPatternBySegments ==
  matchOut # <<>> =>
    /\ matchOut[1] =
         IF \A i \in 1..Len(matchIn.pattern) : matchIn.pattern[i] # "*"
         THEN \E at \in 0..Len(matchIn.path) : OccursAt(matchIn.path, matchIn.pattern, at)
         ELSE OccurInOrder(matchIn.path, Segments(matchIn.pattern))
    /\ (\A i \in 1..Len(matchIn.pattern) : matchIn.pattern[i] = "*") => matchOut[1]

\* C19 witness: the two segments of a*a do not fit in the path a without
\* overlapping, and the call returned false.
C19_Witness ==
  /\ matchOut = <<FALSE>>
  /\ matchIn.pattern = <<"a", "*", "a">>
  /\ matchIn.path = <<"a">>

\* the errors ParseSelection and parseRange return
ReturnedErrors ==
  InvalidRangeErrors \cup {<<"range is out of bounds">>, <<"number is out of range">>, NoMatch}

\* C21: for every line and every list, the empty list included,
\* ParseSelection, parseRange and matchesPattern read no position of the list
\* outside 1..len(deps) and slice no path beyond its length: a call never
\* panics, it returns records or one of its errors.
C21_ParserNeverPanics ==
  parseOut # <<>> =>
    /\ parseOut[1].err # Panic
    /\ parseOut[1].err \in ReturnedErrors \cup {NoErr}
    /\ LET clauses == Clauses(parseIn.input)
       IN \A k \in 1..Len(clauses) :
            StrContains(clauses[k], <<"*">>) =>
              \A i \in 1..Len(parseIn.deps) :
                LET path == ToLower(parseIn.deps[i].Path)
                    offsets == sliceOffsets(path, Split(clauses[k], "*"), 0)
                IN \A o \in 1..Len(offsets) : offsets[o] >= 0 /\ offsets[o] <= Len(path)

\* C21 witness: a position and a range on the empty list, answered with the
\* error of the position.
C21_Witness ==
  /\ parseOut # <<>>
  /\ parseIn.deps = <<>>
  /\ parseIn.input = <<"1", ",", "1", "-", "2">>
  /\ parseOut[1].err = <<"number is out of range">>

\* the last line Select read, and what it is once trimmed
ReadLine == lastRead # <<>> /\ lastRead[1].err = NoErr
LastInput == TrimSpace(lastRead[1].line)

\* the messages Select prints when a line cannot be used
ParseReports == {"Invalid selection", "No dependencies matched your selection"}

\* C22: once the line Select read is empty after trimming, in whichever turn
\* of the loop, Select has returned Cancelled = true with an empty selection
\* and no error, and that line was neither parsed (no report of a parse, no
\* selection shown) nor followed by a confirmation.
C22_EmptyInputCancels ==
  (ReadLine /\ LastInput = <<>>) =>
    /\ selResult = <<SelectionResult(<<>>, TRUE, NoErr)>>
    /\ pc \notin {"prompt", "confirm"}
    /\ asked = ""
    /\ pending = <<>>
    /\ lastReport \notin ParseReports
    /\ exit # "selectError"

\* C22 witness: a line of one space read in a later turn of the loop, after a
\* line that did not end it; Select has just returned.
C22_Witness ==
  /\ pc = "selected"
  /\ turn = "later"
  /\ ReadLine /\ lastRead[1].line = <<" ">>
  /\ selResult = <<SelectionResult(<<>>, TRUE, NoErr)>>

\* what ParseSelection makes of the last line Select read
LastParse == ParseSelection(LastInput, filteredDeps)

\* C23: once ParseSelection has returned an error for the line Select read,
\* the error is reported and Select is back at its prompt to read another
\* line: it has not returned, no result with Error or Cancelled exists, the
\* run has not ended, and no selection was shown or confirmed.
C23_ParseErrorAsksAgain ==
  (ReadLine /\ LastInput # <<>> /\ LastParse.err # NoErr) =>
    /\ pc = "prompt"
    /\ lastReport = "Invalid selection"
    /\ selResult = <<>>
    /\ exit = "" /\ runErr = NoErr
    /\ asked = ""
    /\ pending = <<>>

\* C23 witness: position 9 of a shorter list, typed in a later turn of the
\* loop; the error is reported and the prompt is up again.
C23_Witness ==
  /\ pc = "prompt"
  /\ turn = "later"
  /\ ReadLine /\ lastRead[1].line = <<"9">>
  /\ LastParse.err = <<"number is out of range">>
  /\ lastReport = "Invalid selection"

\* C24: Select returns a result with a non-empty Selected only after a
\* confirmation that was accepted, and its list is what ParseSelection made
\* of the line read just before that confirmation; after a declined
\* confirmation Select has not returned and is at its prompt for a new line.
C24_SelectedWasConfirmed ==
  /\ (selResult # <<>> /\ selResult[1].Selected # <<>> /\ pc = "selected") =>
       /\ asked = "yes"
       /\ ReadLine /\ LastInput # <<>>
       /\ LastParse.err = NoErr
       /\ selResult[1].Selected = LastParse.selected
  /\ asked = "no" =>
       /\ pc = "prompt"
       /\ selResult = <<>>
       /\ exit = ""
       /\ lastReport = "Let's try again..."

\* C24 witness: "2,1" typed in a later turn and accepted; Select has returned
\* the second record followed by the first.
C24_Witness ==
  /\ pc = "selected"
  /\ turn = "later"
  /\ asked = "yes"
  /\ ReadLine /\ lastRead[1].line = <<"2", ",", "1">>
  /\ selResult = <<SelectionResult(<<filteredDeps[2], filteredDeps[1]>>, FALSE, NoErr)>>

\* C25: once ReadInput has failed, Select has returned a result whose Error
\* wraps that failure, with an empty selection and Cancelled = false, and
\* App.Run has returned an error that contains "dependency selection failed"
\* and the failure, with no update and no tidy command run.
C25_ReadErrorEndsRun ==
  (lastRead # <<>> /\ lastRead[1].err # NoErr) =>
    /\ selResult = <<SelectionResult(<<>>, FALSE, Wrap("reading input", lastRead[1].err))>>
    /\ pc = "done" /\ exit = "selectError"
    /\ ErrContains(runErr, "dependency selection failed")
    /\ \A i \in 1..Len(lastRead[1].err) : ErrContains(runErr, lastRead[1].err[i])
    /\ calls = <<>>
    /\ asked = ""

\* C25 witness: the read fails in a later turn of the loop and the run ends
\* with the wrapped failure.
C25_Witness ==
  /\ lastRead = <<[line |-> <<>>, err |-> ReadFailed]>>
  /\ turn = "later"
  /\ exit = "selectError"
  /\ runErr = <<"dependency selection failed", "reading input", "EOF">>
  /\ calls = <<>>

\* the three events that end Select's loop, as the last turn shows them
EndedByEmptyInput == ReadLine /\ LastInput = <<>>
EndedByReadFailure == lastRead # <<>> /\ lastRead[1].err # NoErr
EndedByConfirmation == asked = "yes"
LoopEnded == EndedByEmptyInput \/ EndedByReadFailure \/ EndedByConfirmation

\* Select is in its loop
InLoop == pc \in {"prompt", "confirm"}

\* Select has returned and App.Run has not gone on yet
SelectReturned == selResult # <<>> /\ (pc = "selected" \/ exit = "selectError")

\* C26: on a non-empty list Select's loop goes on, whatever the number of
\* turns, of parse errors and of declined confirmations, until the first
\* empty line, accepted confirmation or failed read, and it ends with that
\* event: Select is in its loop exactly as long as none of the three has
\* happened, and it has returned exactly when one of them has, with the
\* result of that event.
C26_LoopEndsOnlyByThree ==
  (filteredDeps # <<>> /\ (InLoop \/ SelectReturned)) =>
    /\ InLoop <=> ~LoopEnded
    /\ InLoop <=> selResult = <<>>
    /\ InLoop => exit = ""
    /\ EndedByEmptyInput => selResult[1].Cancelled
    /\ EndedByReadFailure => selResult[1].Error # NoErr
    /\ EndedByConfirmation => selResult[1].Selected # <<>>

\* C26 witness: the loop is in a turn after the first, after a declined
\* confirmation, and the prompt is up for one more line.
C26_Witness ==
  /\ pc = "prompt"
  /\ filteredDeps # <<>>
  /\ turn = "later"
  /\ asked = "no"
  /\ lastReport = "Let's try again..."
  /\ selResult = <<>>

\* C27: when the go list command fails, GetUpdatableDependencies returns no
\* list and an error that contains "failed to check for updates".
C27_GoListFailureIsReturned ==
  (mgrOut # <<>> /\ mgrIn.fn = "GetUpdatableDependencies" /\ mgrIn.goListFails) =>
    /\ mgrOut[1].deps = <<>>
    /\ ErrContains(mgrOut[1].err, "failed to check for updates")

\* C28: the list Select displays with its positions is the list
\* ParseSelection resolves the positions against, in the same order, and in
\* App.Run that list is in canonical order, direct records first and each
\* group ascending by path, with and without the indirect records.
C28_ShownListIsResolvedList ==
  /\ (pc = "prompt" /\ lastRead = <<>>) => printed = filteredDeps
  /\ pc = "confirm" => pending = LastParse.selected
  /\ (cfg.Selective /\ InLoop) => CanonicalOrder(filteredDeps)

\* the ways a SelectionResult says how the selection ended
Outcomes(result) ==
  {o \in {"selected", "cancelled", "error"} :
     \/ o = "selected" /\ result.Selected # <<>>
     \/ o = "cancelled" /\ result.Cancelled
     \/ o = "error" /\ result.Error # NoErr}

\* C29: every SelectionResult that Select returns carries at most one of a
\* non-empty Selected, Cancelled = true and a non-nil Error.
C29_OneOutcome ==
  selResult # <<>> => Cardinality(Outcomes(selResult[1])) <= 1

\* C29 witness: the result of a failed first read, an Error with neither a
\* selection nor Cancelled.
C29_Witness ==
  /\ selResult # <<>>
  /\ turn = "first"
  /\ Outcomes(selResult[1]) = {"error"}

\* C30: on a non-empty list, whatever the line, a ParseSelection that
\* returns no error returns a non-empty list, and each of its records is a
\* record of the list, as it stands there; so Select never finds an empty
\* selection after an error-free parse.
C30_ParsedSelectionNotEmpty ==
  (parseOut # <<>> /\ parseIn.deps # <<>> /\ parseOut[1].err = NoErr) =>
    /\ parseOut[1].selected # <<>>
    /\ \A i \in 1..Len(parseOut[1].selected) :
         \E j \in 1..Len(parseIn.deps) : parseOut[1].selected[i] = parseIn.deps[j]

\* C30 witness: the lower-case pattern b* selects the record whose path is
\* written B/a, and the record comes back with that path.
C30_Witness ==
  /\ parseOut # <<>>
  /\ parseIn.input = <<"b", "*">>
  /\ parseOut[1].err = NoErr
  /\ Len(parseOut[1].selected) = 1
  /\ parseOut[1].selected[1].Path = PathBA
  /\ Len(parseIn.deps) >= 2

====
